---------------------------- MODULE Spec2Model ----------------------------
(***************************************************************************)
(* Model of tools/idevicebtlogger.c: the PacketLogger -> pcap frame        *)
(* translator, the capture session (start_logging / stop_logging), the     *)
(* device event callback, the signal handler and main's startup and        *)
(* teardown.                                                               *)
(*                                                                         *)
(* Threads: main, the event-delivery thread of the transport library       *)
(* (device_event_cb), the capture worker thread of the bt_packet_logger    *)
(* client (frame callbacks) and the signal handler (clean_exit).           *)
(*                                                                         *)
(* 32-bit unsigned values are kept as two 16-bit halves [hi, lo] so that   *)
(* the wrap-around of bpf_u_int32 arithmetic is computed exactly.          *)
(***************************************************************************)
EXTENDS Integers, Sequences, FiniteSets, TLC

(***************************************************************************)
(* Bounds of the model                                                     *)
(***************************************************************************)
MaxEvents == 3

MaxFrames == 2

MaxSignals == 1

(***************************************************************************)
(* Program constants                                                       *)
(***************************************************************************)
NULL == "NULL"

\* line 64: packetlogger_fd = -1 until open() succeeds
NoFd == -1

\* a descriptor returned by a successful open()
OpenFd == 3

\* lines 71-76: PacketLoggerPacketType
HCI_COMMAND == 0

HCI_EVENT == 1

SENT_ACL_DATA == 2

RECV_ACL_DATA == 3

\* line 108 / 138: the value of hci_h4_type that suppresses the dump
H4_NONE == 255

\* H4 types written by the switch, lines 113, 118, 123, 128
H4_EVENT == 4

H4_COMMAND == 1

H4_ACL == 2

\* sizeof(uint32_t), the direction pseudo header (lines 96, 97, 144)
SizeofU32 == 4

\* sizeof(bt_packet_logger_header_t): three 32-bit fields
HeaderSize == 12

\* BT_MAX_PACKET_SIZE of libimobiledevice/bt_packet_logger.h
BT_MAX_PACKET_SIZE == 65535

Half == 256 * 256

(***************************************************************************)
(* 32-bit unsigned arithmetic                                              *)
(***************************************************************************)
U32(h, l) == [hi |-> h, lo |-> l]

\* an integer (possibly negative: a wrapped size_t) truncated to 32 bits
TruncU32(v) == [hi |-> (v \div Half) % Half, lo |-> v % Half]

\* x + n in 32 bits, n a small non-negative integer
AddU32(x, n) ==
    LET s == x.lo + n
    IN  [hi |-> (x.hi + (s \div Half)) % Half, lo |-> s % Half]

\* x > m, for an integer 0 <= m < 2^31
GtU32(x, m) ==
    \/ x.hi > m \div Half
    \/ x.hi = m \div Half /\ x.lo > m % Half

\* ntohl(header->field): the four bytes of the field, in the order they lie
\* in the buffer, decoded most significant byte first
ntohl(b) == [hi |-> b[1] * 256 + b[2], lo |-> b[3] * 256 + b[4]]

\* htonl(x) as the four bytes it leaves in memory
htonl(x) == << x.hi \div 256, x.hi % 256, x.lo \div 256, x.lo % 256 >>

\* lines 51-52
LIBPCAP_BT_PHDR_SENT == << 0, 0, 0, 0 >>

LIBPCAP_BT_PHDR_RECV == htonl(U32(0, 1))

(***************************************************************************)
(* bt_packet_logger_callback_pcap, lines 89-149, as functions of the frame *)
(* f = [length, ts_secs, ts_usecs : 4 bytes each, type : byte, len : the   *)
(* delivered byte count (uint16_t)]                                        *)
(***************************************************************************)
\* lines 95-99
PcapHeader(f) ==
    [ caplen  |-> AddU32(ntohl(f.length), SizeofU32),
      len     |-> TruncU32(f.len - HeaderSize + SizeofU32),
      tv_sec  |-> ntohl(f.ts_secs),
      tv_usec |-> ntohl(f.ts_usecs) ]

\* a sanity check that forgets the capture length
TooLarge_lenonly(h) == GtU32(h.len, BT_MAX_PACKET_SIZE)

\* a sanity check that looks at the capture length only
TooLarge_caplenonly(h) == GtU32(h.caplen, BT_MAX_PACKET_SIZE)

\* line 102
TooLarge(h) ==
    GtU32(h.len, BT_MAX_PACKET_SIZE) \/ GtU32(h.caplen, BT_MAX_PACKET_SIZE)

\* lines 111-137: hci_h4_type
HciH4Type(packet_type) ==
    CASE packet_type = HCI_EVENT     -> H4_EVENT
      [] packet_type = HCI_COMMAND   -> H4_COMMAND
      [] packet_type = SENT_ACL_DATA -> H4_ACL
      [] packet_type = RECV_ACL_DATA -> H4_ACL
      [] OTHER                       -> packet_type

\* lines 111-137: direction
Direction(packet_type) ==
    CASE packet_type = HCI_EVENT     -> LIBPCAP_BT_PHDR_RECV
      [] packet_type = HCI_COMMAND   -> LIBPCAP_BT_PHDR_SENT
      [] packet_type = SENT_ACL_DATA -> LIBPCAP_BT_PHDR_SENT
      [] packet_type = RECV_ACL_DATA -> LIBPCAP_BT_PHDR_RECV
      [] OTHER                       -> LIBPCAP_BT_PHDR_RECV

\* bytes that a read past the end of the delivered buffer may return
StaleBytes == { HCI_EVENT, 7, H4_NONE }

\* line 107: data[offset]; it lies in the buffer only when len > HeaderSize
TypeRead(f) == IF f.len > HeaderSize THEN { f.type } ELSE StaleBytes

\* lines 138-147: the record handed to pcap_dump for type byte t
PcapRecord(f, t) ==
    [ hdr       |-> PcapHeader(f),
      direction |-> Direction(t),
      h4        |-> HciH4Type(t) ]


(***************************************************************************)
(* Inputs                                                                  *)
(***************************************************************************)
UDIDs == { "A", "B" }

ConnTypes == { "USBMUXD", "NETWORK" }

\* idevice_event_t: event, udid, conn_type
Events == [ event : { "ADD", "REMOVE" }, udid : UDIDs, conn_type : ConnTypes ]

\* how the calls made by start_logging end
StartOutcomes == { "no_device", "no_lockdown", "no_service", "no_capture", "ok" }

MkFrame(l, n, t) ==
    [ length   |-> l,
      ts_secs  |-> << 0, 0, 1, 2 >>,
      ts_usecs |-> << 0, 0, 3, 4 >>,
      type     |-> t,
      len      |-> n ]

\* the frames delivered in the lifecycle specification: declared length 10
\* with an HCI event, and a declared length of 65532
Frames ==
    { MkFrame(<< 0, 0, 0, 10 >>, 22, HCI_EVENT),
      MkFrame(<< 0, 0, 255, 252 >>, 22, HCI_COMMAND) }

\* declared lengths 10, 65531, 65532, 65536, 2^32 - 4 and 2^32 - 1
WideLengths ==
    { << 0, 0, 0, 10 >>, << 0, 0, 255, 251 >>, << 0, 0, 255, 252 >>,
      << 0, 1, 0, 0 >>, << 255, 255, 255, 252 >>, << 255, 255, 255, 255 >> }

WideTypes == { HCI_COMMAND, HCI_EVENT, SENT_ACL_DATA, RECV_ACL_DATA, 7, H4_NONE }

\* delivered byte counts: shorter than the header, the header alone, a
\* header with a type byte and 9 payload bytes, and the largest uint16_t
WideSizes == { 4, HeaderSize, 22, Half - 1 }

\* the frames delivered in the translator specification
FramesWide ==
    { MkFrame(l, 22, t) : l \in WideLengths, t \in WideTypes }
      \cup { MkFrame(l, n, HCI_EVENT) : l \in WideLengths, n \in WideSizes }

(***************************************************************************)
(* State                                                                   *)
(***************************************************************************)
VARIABLES
    use_network,         \* line 60
    exit_on_disconnect,  \* line 55
    log_format,          \* line 69
    udid,                \* line 57: the bound identity or NULL
    device,              \* line 58: NULL or the identity the handle is for
    bt_packet_logger,    \* line 59: NULL or the identity the client is for
    lockdown_clients,    \* lockdownd clients created and not freed
    device_handles,      \* device handles created and not freed
    service_clients,     \* bt_packet_logger clients created and not freed
    quit_flag,           \* line 54
    pcap_dumper,         \* line 63
    packetlogger_fd,     \* line 64
    sinkState,           \* "unopened", "open" or "closed"
    sink,                \* what has been written to the output
    subscribed,          \* idevice_event_subscribe is in effect
    mainPc,              \* position of main
    exitCode,            \* return value of main
    calls,               \* teardown calls main has made, in order
    event,               \* the event being / last handled by device_event_cb
    evpc,                \* "idle" or "in_cb": device_event_cb in progress
    nEvents,             \* events delivered
    wpc,                 \* "idle" or "in_cb": a frame callback in progress
    cur,                 \* the frame handed to the frame callback
    hist,                \* the frames handled, each with what became of it
    stdout,              \* the [connected:] / [disconnected:] lines
    nStartCalls,         \* calls of start_logging
    nSignals,            \* signals delivered
    stderr,              \* lines the callbacks and the handler wrote to stderr
    released             \* the release calls of the last stop_logging

cfgVars == << use_network, exit_on_disconnect, log_format >>

sessVars ==
    << udid, device, bt_packet_logger, lockdown_clients, device_handles,
       service_clients >>

sinkVars == << pcap_dumper, packetlogger_fd, sinkState >>

mainVars == << mainPc, exitCode, subscribed, calls >>

evVars == << event, evpc, nEvents >>

wkVars == << wpc, cur >>

outVars == << stdout, nStartCalls >>

logVars == << stderr, released >>

vars ==
    << cfgVars, sessVars, sinkVars, sink, mainVars, evVars, wkVars, hist,
       outVars, quit_flag, nSignals, logVars >>

NoEvent == [ event |-> "NONE", udid |-> NULL, conn_type |-> "NONE" ]

NoFrame == MkFrame(<< 0, 0, 0, 0 >>, 0, 0)

\* stderr, as the number of lines of each kind written so far: "Exiting..."
\* (line 258), the size warning (line 103), "Could not start logger"
\* (line 238)
NoLines == [ exiting |-> 0, warning |-> 0, start_failed |-> 0 ]

\* lines 54-69: the initial values of the globals, main not yet started
Init ==
    /\ use_network = FALSE
    /\ exit_on_disconnect = FALSE
    /\ log_format = "PACKETLOGGER"
    /\ udid = NULL
    /\ device = NULL
    /\ bt_packet_logger = NULL
    /\ lockdown_clients = 0
    /\ device_handles = 0
    /\ service_clients = 0
    /\ quit_flag = 0
    /\ pcap_dumper = NULL
    /\ packetlogger_fd = NoFd
    /\ sinkState = "unopened"
    /\ sink = << >>
    /\ subscribed = FALSE
    /\ mainPc = "args"
    /\ exitCode = 0
    /\ calls = << >>
    /\ event = NoEvent
    /\ evpc = "idle"
    /\ nEvents = 0
    /\ wpc = "idle"
    /\ cur = NoFrame
    /\ hist = << >>
    /\ stdout = << >>
    /\ nStartCalls = 0
    /\ nSignals = 0
    /\ stderr = NoLines
    /\ released = << >>

\* the process runs: main has not returned and nothing has crashed
Alive == mainPc \notin { "exited", "done", "crashed" }

(***************************************************************************)
(* The signal handler                                                      *)
(***************************************************************************)
\* lines 256-260, installed at lines 305-308
clean_exit ==
    /\ Alive
    /\ nSignals < MaxSignals
    /\ nSignals' = nSignals + 1
    /\ stderr' = [ stderr EXCEPT !.exiting = @ + 1 ]
    /\ quit_flag' = quit_flag + 1
    /\ UNCHANGED << cfgVars, sessVars, sinkVars, sink, mainVars, evVars,
                    wkVars, hist, outVars, released >>

(***************************************************************************)
(* The capture session                                                     *)
(***************************************************************************)
\* the number of release calls named c in the sequence q
CountOf(q, c) == Cardinality({ i \in DOMAIN q : q[i] = c })

\* a stop_logging that forgets the device handle
stop_logging_keepdev(b, d) ==
    [ bt_packet_logger |-> NULL,
      device           |-> d,
      released         |-> IF b # NULL
                           THEN << "bt_packet_logger_client_free" >>
                           ELSE << >> ]

\* a stop_logging that releases the device handle before the client
stop_logging_devfirst(b, d) ==
    [ bt_packet_logger |-> NULL,
      device           |-> NULL,
      released         |->
          (IF d # NULL THEN << "idevice_free" >> ELSE << >>)
            \o (IF b # NULL THEN << "bt_packet_logger_client_free" >> ELSE << >>) ]

\* lines 154-167: the handles after stop_logging called with client b and
\* device d, and the release calls it made, in order
stop_logging(b, d) ==
    [ bt_packet_logger |-> NULL,
      device           |-> NULL,
      released         |->
          (IF b # NULL THEN << "bt_packet_logger_client_free" >> ELSE << >>)
            \o (IF d # NULL THEN << "idevice_free" >> ELSE << >>) ]

\* bt_packet_logger_client_free joins the capture worker: it returns only
\* when no frame callback is in progress
ClientFreeReturns(b) == b # NULL => wpc = "idle"

\* a start_logging whose capture-start failure path keeps the device handle
start_logging_keepdev(u, o) ==
    IF o = "no_capture"
    THEN [ device |-> u, bt_packet_logger |-> NULL, lockdown |-> 1,
           devs |-> 1, clis |-> 0, ret |-> -1 ]
    ELSE IF o = "ok"
         THEN [ device |-> u, bt_packet_logger |-> u, lockdown |-> 1,
                devs |-> 1, clis |-> 1, ret |-> 0 ]
         ELSE [ device |-> NULL, bt_packet_logger |-> NULL, lockdown |-> 0,
                devs |-> 0, clis |-> 0, ret |-> -1 ]

\* a start_logging whose failed start_capture falls through to the
\* connected line and returns 0
start_logging_noreturn(u, o) ==
    IF o = "ok"
    THEN [ device |-> u, bt_packet_logger |-> u, lockdown |-> 1,
           devs |-> 1, clis |-> 1, ret |-> 0 ]
    ELSE IF o = "no_capture"
         THEN [ device |-> NULL, bt_packet_logger |-> NULL, lockdown |-> 1,
                devs |-> 0, clis |-> 0, ret |-> 0 ]
         ELSE [ device |-> NULL, bt_packet_logger |-> NULL,
                lockdown |-> (IF o = "no_service" THEN 1 ELSE 0),
                devs |-> 0, clis |-> 0, ret |-> -1 ]

\* lines 172-219: start_logging for identity u when its calls end as o:
\* the handles left, the lockdownd clients, device handles and service
\* clients it created and did not free, the return value
start_logging(u, o) ==
    CASE o = "no_device" ->
           [ device |-> NULL, bt_packet_logger |-> NULL, lockdown |-> 0,
             devs |-> 0, clis |-> 0, ret |-> -1 ]
      [] o = "no_lockdown" ->
           [ device |-> NULL, bt_packet_logger |-> NULL, lockdown |-> 0,
             devs |-> 0, clis |-> 0, ret |-> -1 ]
      [] o \in { "no_service", "no_capture" } ->
           [ device |-> NULL, bt_packet_logger |-> NULL, lockdown |-> 1,
             devs |-> 0, clis |-> 0, ret |-> -1 ]
      [] OTHER ->
           [ device |-> u, bt_packet_logger |-> u, lockdown |-> 1,
             devs |-> 1, clis |-> 1, ret |-> 0 ]

(***************************************************************************)
(* The device event callback                                               *)
(***************************************************************************)
\* a transport filter that lets every event through
TransportMatch_any(e) == TRUE

\* lines 226-230
TransportMatch(e) ==
    IF use_network THEN e.conn_type = "NETWORK" ELSE e.conn_type = "USBMUXD"

\* an identity test that accepts every device
UdidMatch_any(u, e) == TRUE

\* lines 236, 243: strcmp(udid, event->udid) == 0
UdidMatch(u, e) == u = e.udid

\* an adoption that takes the identity of every attach event
BoundUdid_rebind(u, e) == e.udid

\* lines 233-235: the identity bound once the attach event e was seen
BoundUdid(u, e) == IF u = NULL THEN e.udid ELSE u

\* the transport library's thread takes an event and enters device_event_cb
EventDeliver(e) ==
    /\ Alive
    /\ subscribed
    /\ evpc = "idle"
    /\ nEvents < MaxEvents
    /\ event' = e
    /\ evpc' = "in_cb"
    /\ nEvents' = nEvents + 1
    /\ UNCHANGED << cfgVars, sessVars, sinkVars, sink, mainVars, wkVars, hist,
                    outVars, quit_flag, nSignals, logVars >>

\* lines 231-241
Attach ==
    IF bt_packet_logger = NULL
    THEN LET u == BoundUdid(udid, event)
         IN  IF UdidMatch(u, event)
             THEN \E o \in StartOutcomes :
                    LET r == start_logging(u, o)
                    IN  /\ udid' = u
                        /\ device' = r.device
                        /\ bt_packet_logger' = r.bt_packet_logger
                        /\ lockdown_clients' = lockdown_clients + r.lockdown
                        /\ device_handles' = device_handles + r.devs
                        /\ service_clients' = service_clients + r.clis
                        /\ nStartCalls' = nStartCalls + 1
                        /\ stderr' = IF r.ret = 0
                                     THEN stderr
                                     ELSE [ stderr EXCEPT !.start_failed = @ + 1 ]
                        /\ stdout' = IF r.ret = 0
                                     THEN Append(stdout, << "connected", u >>)
                                     ELSE stdout
                        /\ UNCHANGED << quit_flag, released >>
             ELSE /\ udid' = u
                  /\ UNCHANGED << device, bt_packet_logger, lockdown_clients,
                                  device_handles, service_clients, outVars,
                                  quit_flag, logVars >>
    ELSE UNCHANGED << sessVars, outVars, quit_flag, logVars >>

\* lines 242-250
Detach ==
    IF bt_packet_logger # NULL /\ UdidMatch(udid, event)
    THEN LET r == stop_logging(bt_packet_logger, device)
         IN  /\ ClientFreeReturns(bt_packet_logger)
             /\ bt_packet_logger' = r.bt_packet_logger
             /\ device' = r.device
             /\ released' = r.released
             /\ service_clients' = service_clients
                                     - CountOf(r.released, "bt_packet_logger_client_free")
             /\ device_handles' = device_handles - CountOf(r.released, "idevice_free")
             /\ stdout' = Append(stdout, << "disconnected", udid >>)
             /\ quit_flag' = IF exit_on_disconnect THEN quit_flag + 1 ELSE quit_flag
             /\ UNCHANGED << udid, lockdown_clients, nStartCalls, stderr >>
    ELSE UNCHANGED << sessVars, outVars, quit_flag, logVars >>

\* lines 224-251: device_event_cb on the event taken
device_event_cb ==
    /\ Alive
    /\ evpc = "in_cb"
    /\ evpc' = "idle"
    /\ IF ~TransportMatch(event)
       THEN UNCHANGED << sessVars, outVars, quit_flag, logVars >>
       ELSE IF event.event = "ADD" THEN Attach ELSE Detach
    /\ UNCHANGED << cfgVars, sinkVars, sink, mainVars, event, nEvents, wkVars,
                    hist, nSignals >>

(***************************************************************************)
(* The frame callbacks, run by the capture worker thread                   *)
(***************************************************************************)
\* the worker exists while the client does; it hands frame f to the callback
\* registered by start_logging
FrameDeliver(f) ==
    /\ Alive
    /\ bt_packet_logger # NULL
    /\ wpc = "idle"
    /\ Len(hist) < MaxFrames
    /\ wpc' = "in_cb"
    /\ cur' = f
    /\ UNCHANGED << cfgVars, sessVars, sinkVars, sink, mainVars, evVars, hist,
                    outVars, quit_flag, nSignals, logVars >>

\* what pcap_dump on a NULL dumper may do
NullDumpOutcomes == { "crashed", "lost" }

\* lines 89-149
bt_packet_logger_callback_pcap ==
    LET h == PcapHeader(cur)
    IN  IF TooLarge(h)
        THEN /\ hist' = Append(hist, [ f |-> cur, res |-> "dropped" ])
             /\ stderr' = [ stderr EXCEPT !.warning = @ + 1 ]
             /\ UNCHANGED << sink, mainPc >>
        ELSE \E t \in TypeRead(cur) :
               IF HciH4Type(t) = H4_NONE
               THEN /\ hist' = Append(hist, [ f |-> cur, res |-> "skipped" ])
                    /\ UNCHANGED << sink, mainPc, stderr >>
               ELSE IF pcap_dumper = NULL
                    THEN \E o \in NullDumpOutcomes :
                           /\ hist' = Append(hist, [ f |-> cur, res |-> o ])
                           /\ mainPc' = IF o = "crashed" THEN "crashed" ELSE mainPc
                           /\ UNCHANGED << sink, stderr >>
                    ELSE /\ sink' = Append(sink, PcapRecord(cur, t))
                         /\ hist' = Append(hist, [ f |-> cur, res |-> "written" ])
                         /\ UNCHANGED << mainPc, stderr >>

\* a passthrough that leaves out the frames the pcap sanity check rejects
bt_packet_logger_callback_packetlogger_checked ==
    /\ sink' = IF TooLarge(PcapHeader(cur))
               THEN sink
               ELSE Append(sink, [ data |-> cur, len |-> cur.len ])
    /\ hist' = Append(hist, [ f |-> cur, res |-> "raw" ])
    /\ UNCHANGED << mainPc, stderr >>

\* lines 81-84
bt_packet_logger_callback_packetlogger ==
    /\ sink' = Append(sink, [ data |-> cur, len |-> cur.len ])
    /\ hist' = Append(hist, [ f |-> cur, res |-> "raw" ])
    /\ UNCHANGED << mainPc, stderr >>

\* lines 193-205: the callback start_logging registered, run on the frame
FrameCallback ==
    /\ Alive
    /\ wpc = "in_cb"
    /\ wpc' = "idle"
    /\ IF log_format = "PCAP"
       THEN bt_packet_logger_callback_pcap
       ELSE bt_packet_logger_callback_packetlogger
    /\ UNCHANGED << cfgVars, sessVars, sinkVars, exitCode, subscribed, calls,
                    evVars, cur, outVars, quit_flag, nSignals, released >>

(***************************************************************************)
(* main                                                                    *)
(***************************************************************************)
\* how option parsing ends
ParseOutcomes == { "ok", "usage", "help" }

\* lines 312-372
MainParseArgs ==
    /\ mainPc = "args"
    /\ \E res \in ParseOutcomes :
         IF res = "ok"
         THEN /\ \E n \in BOOLEAN, x \in BOOLEAN, u \in UDIDs \cup { NULL },
                    fmt \in { "PACKETLOGGER", "PCAP" } :
                    /\ use_network' = n
                    /\ exit_on_disconnect' = x
                    /\ udid' = u
                    /\ log_format' = fmt
              /\ mainPc' = "devlist"
              /\ UNCHANGED exitCode
         ELSE /\ mainPc' = "exited"
              /\ exitCode' = IF res = "usage" THEN 2 ELSE 0
              /\ UNCHANGED << cfgVars, udid >>
    /\ UNCHANGED << device, bt_packet_logger, lockdown_clients, device_handles,
                    service_clients, sinkVars, sink, subscribed, calls, evVars,
                    wkVars, hist, outVars, quit_flag, nSignals, logVars >>

\* lines 374-386
MainDeviceList ==
    /\ mainPc = "devlist"
    /\ \E num \in { 0, 1 } :
         IF num = 0 /\ udid = NULL
         THEN mainPc' = "exited" /\ exitCode' = -1
         ELSE mainPc' = "open" /\ UNCHANGED exitCode
    /\ UNCHANGED << cfgVars, sessVars, sinkVars, sink, subscribed, calls,
                    evVars, wkVars, hist, outVars, quit_flag, nSignals, logVars >>

\* lines 388-408: ok says whether the output file can be opened
MainOpenSink ==
    /\ mainPc = "open"
    /\ \E ok \in BOOLEAN :
         IF log_format = "PCAP"
         THEN /\ pcap_dumper' = IF ok THEN "dumper" ELSE NULL
              /\ sinkState' = IF ok THEN "open" ELSE "unopened"
              /\ mainPc' = "subscribe"
              /\ UNCHANGED << packetlogger_fd, exitCode >>
         ELSE IF ok
              THEN /\ packetlogger_fd' = OpenFd
                   /\ sinkState' = "open"
                   /\ mainPc' = "subscribe"
                   /\ UNCHANGED << pcap_dumper, exitCode >>
              ELSE /\ mainPc' = "exited"
                   /\ exitCode' = -2
                   /\ UNCHANGED << pcap_dumper, packetlogger_fd, sinkState >>
    /\ UNCHANGED << cfgVars, sessVars, sink, subscribed, calls, evVars, wkVars,
                    hist, outVars, quit_flag, nSignals, logVars >>

\* line 409
MainSubscribe ==
    /\ mainPc = "subscribe"
    /\ subscribed' = TRUE
    /\ mainPc' = "loop"
    /\ UNCHANGED << cfgVars, sessVars, sinkVars, sink, exitCode, calls, evVars,
                    wkVars, hist, outVars, quit_flag, nSignals, logVars >>

\* a teardown that closes the output before it stops the session
MainAfter_closefirst(pc) ==
    CASE pc = "loop"        -> "unsubscribe"
      [] pc = "unsubscribe" -> "close"
      [] pc = "close"       -> "stop"
      [] pc = "stop"        -> "done"
      [] OTHER              -> pc

\* lines 411-427: the order of main's steps from the wait loop on
MainAfter(pc) ==
    CASE pc = "loop"        -> "unsubscribe"
      [] pc = "unsubscribe" -> "stop"
      [] pc = "stop"        -> "close"
      [] pc = "close"       -> "done"
      [] OTHER              -> pc

\* lines 411-413: the loop ends once quit_flag is set
MainLoopExit ==
    /\ mainPc = "loop"
    /\ quit_flag # 0
    /\ mainPc' = MainAfter(mainPc)
    /\ UNCHANGED << cfgVars, sessVars, sinkVars, sink, exitCode, subscribed,
                    calls, evVars, wkVars, hist, outVars, quit_flag, nSignals, logVars >>

\* idevice_event_unsubscribe returns only when no event callback is running
\* and none will be delivered any more
UnsubscribeReturns == evpc = "idle"

\* line 415
MainUnsubscribe ==
    /\ mainPc = "unsubscribe"
    /\ UnsubscribeReturns
    /\ subscribed' = FALSE
    /\ calls' = Append(calls, "unsubscribe")
    /\ mainPc' = MainAfter(mainPc)
    /\ UNCHANGED << cfgVars, sessVars, sinkVars, sink, exitCode, evVars, wkVars,
                    hist, outVars, quit_flag, nSignals, logVars >>

\* line 416
MainStopLogging ==
    /\ mainPc = "stop"
    /\ ClientFreeReturns(bt_packet_logger)
    /\ LET r == stop_logging(bt_packet_logger, device)
       IN  /\ bt_packet_logger' = r.bt_packet_logger
           /\ device' = r.device
           /\ released' = r.released
           /\ service_clients' = service_clients
                                   - CountOf(r.released, "bt_packet_logger_client_free")
           /\ device_handles' = device_handles - CountOf(r.released, "idevice_free")
    /\ calls' = Append(calls, "stop_logging")
    /\ mainPc' = MainAfter(mainPc)
    /\ UNCHANGED << cfgVars, udid, lockdown_clients, sinkVars, sink, exitCode,
                    subscribed, evVars, wkVars, hist, outVars, quit_flag,
                    nSignals, stderr >>

\* lines 418-423: the close calls made
SinkCloses ==
    (IF pcap_dumper # NULL THEN << "pcap_dump_close" >> ELSE << >>)
      \o (IF packetlogger_fd >= 0 THEN << "close" >> ELSE << >>)

\* lines 418-427
MainCloseSink ==
    /\ mainPc = "close"
    /\ calls' = calls \o SinkCloses
    /\ sinkState' = IF SinkCloses # << >> THEN "closed" ELSE sinkState
    /\ mainPc' = MainAfter(mainPc)
    /\ UNCHANGED << cfgVars, sessVars, pcap_dumper, packetlogger_fd, sink,
                    exitCode, subscribed, evVars, wkVars, hist, outVars,
                    quit_flag, nSignals, logVars >>

(***************************************************************************)
(* Specifications                                                          *)
(***************************************************************************)
Next ==
    \/ MainParseArgs
    \/ MainDeviceList
    \/ MainOpenSink
    \/ MainSubscribe
    \/ MainLoopExit
    \/ MainUnsubscribe
    \/ MainStopLogging
    \/ MainCloseSink
    \/ clean_exit
    \/ \E e \in Events : EventDeliver(e)
    \/ device_event_cb
    \/ \E f \in Frames : FrameDeliver(f)
    \/ FrameCallback

Spec == Init /\ [][Next]_vars

\* the translator specification starts where a pcap capture of device "A"
\* over usbmux has just begun, and delivers frames only
InitPcap ==
    /\ use_network = FALSE
    /\ exit_on_disconnect = FALSE
    /\ log_format = "PCAP"
    /\ udid = "A"
    /\ device = "A"
    /\ bt_packet_logger = "A"
    /\ lockdown_clients = 1
    /\ device_handles = 1
    /\ service_clients = 1
    /\ quit_flag = 0
    /\ pcap_dumper = "dumper"
    /\ packetlogger_fd = NoFd
    /\ sinkState = "open"
    /\ sink = << >>
    /\ subscribed = TRUE
    /\ mainPc = "loop"
    /\ exitCode = 0
    /\ calls = << >>
    /\ event = [ event |-> "ADD", udid |-> "A", conn_type |-> "USBMUXD" ]
    /\ evpc = "idle"
    /\ nEvents = 1
    /\ wpc = "idle"
    /\ cur = NoFrame
    /\ hist = << >>
    /\ stdout = << << "connected", "A" >> >>
    /\ nStartCalls = 1
    /\ nSignals = 0
    /\ stderr = NoLines
    /\ released = << >>

NextPcap ==
    \/ \E f \in FramesWide : FrameDeliver(f)
    \/ FrameCallback

SpecPcap == InitPcap /\ [][NextPcap]_vars

\* the state the translator specification starts in is one the program reaches
NotInitPcap == ~InitPcap

(***************************************************************************)
(* Vocabulary of the properties                                            *)
(***************************************************************************)
\* a step in which a frame callback runs to its end
CallbackStep == wpc = "in_cb" /\ wpc' = "idle"

\* a step in which device_event_cb runs to its end
EventStep == evpc = "in_cb" /\ evpc' = "idle"

\* the value of four bytes read most significant byte first, as [hi, lo]
BigEndian(b) == U32(b[1] * 256 + b[2], b[3] * 256 + b[4])

\* the declared length L of frame f satisfies L + 4 <= BT_MAX_PACKET_SIZE
DeclaredFits(f) ==
    /\ BigEndian(f.length).hi = 0
    /\ BigEndian(f.length).lo + SizeofU32 <= BT_MAX_PACKET_SIZE

\* the delivered byte count F of frame f satisfies
\* 0 <= F - headerSize + 4 <= BT_MAX_PACKET_SIZE
DeliveredFits(f) ==
    /\ f.len - HeaderSize + SizeofU32 >= 0
    /\ f.len - HeaderSize + SizeofU32 <= BT_MAX_PACKET_SIZE

\* the event is of the configured transport kind
OfConfiguredKind(e) ==
    e.conn_type = (IF use_network THEN "NETWORK" ELSE "USBMUXD")

\* the record last written to the sink, after the step
LastWritten == sink'[Len(sink')]

(***************************************************************************)
(* C1: in pcap mode every delivered frame whose declared length L and      *)
(* byte count F give lengths within BT_MAX_PACKET_SIZE makes the callback  *)
(* write exactly one record, with capture length L + 4, original length    *)
(* F - headerSize + 4 and the big-endian decoded timestamp fields.  The    *)
(* frames taken are those that hold their type byte (F > headerSize).      *)
(***************************************************************************)
C1_OneRecordPerFrame ==
    [][ (CallbackStep /\ log_format = "PCAP" /\ DeclaredFits(cur)
           /\ DeliveredFits(cur) /\ cur.len > HeaderSize)
        => /\ Len(sink') = Len(sink) + 1
           /\ LastWritten.hdr.caplen
                = U32(0, BigEndian(cur.length).lo + SizeofU32)
           /\ LastWritten.hdr.len = U32(0, cur.len - HeaderSize + SizeofU32)
           /\ LastWritten.hdr.tv_sec = BigEndian(cur.ts_secs)
           /\ LastWritten.hdr.tv_usec = BigEndian(cur.ts_usecs) ]_vars

(***************************************************************************)
(* C2: for every type byte of an accepted frame a record is emitted, with  *)
(* (uartType, direction) = (0x01, SENT) for HciCommand, (0x04, RECV) for   *)
(* HciEvent, (0x02, SENT) for SentAclData, (0x02, RECV) for RecvAclData    *)
(* and (the type byte itself, RECV) for every other value.                 *)
(***************************************************************************)
SENT == << 0, 0, 0, 0 >>

RECV == << 0, 0, 0, 1 >>

C2_Table(t) ==
    CASE t = 0 -> << 1, SENT >>
      [] t = 1 -> << 4, RECV >>
      [] t = 2 -> << 2, SENT >>
      [] t = 3 -> << 2, RECV >>
      [] OTHER -> << t, RECV >>

C2_TypeMapping ==
    [][ (CallbackStep /\ log_format = "PCAP" /\ DeclaredFits(cur)
           /\ DeliveredFits(cur) /\ cur.len > HeaderSize)
        => /\ Len(sink') = Len(sink) + 1
           /\ << LastWritten.h4, LastWritten.direction >> = C2_Table(cur.type)
      ]_vars

(***************************************************************************)
(* C3: in pcap mode no record whose capture length or original length      *)
(* exceeds BT_MAX_PACKET_SIZE is ever in the sink; a frame whose computed  *)
(* capture length or original length exceeds it causes no sink write and   *)
(* changes nothing of the session, the sink handles, main or the           *)
(* notifications, and the worker is left ready for the next frame; a       *)
(* frame within the limits, with its type byte and a type whose H4 type is *)
(* not 0xFF, is written whatever was dropped before it.                    *)
(***************************************************************************)
C3_Exceeds(h) ==
    GtU32(h.caplen, BT_MAX_PACKET_SIZE) \/ GtU32(h.len, BT_MAX_PACKET_SIZE)

C3_OversizeNeverWritten ==
    /\ [](\A i \in DOMAIN sink : ~C3_Exceeds(sink[i].hdr))
    /\ [][ (CallbackStep /\ log_format = "PCAP" /\ C3_Exceeds(PcapHeader(cur)))
           => /\ sink' = sink
              /\ UNCHANGED << sessVars, sinkVars, mainVars, evVars, outVars,
                              quit_flag >> ]_vars
    /\ [][ (CallbackStep /\ log_format = "PCAP" /\ pcap_dumper # NULL
              /\ ~C3_Exceeds(PcapHeader(cur)) /\ cur.len > HeaderSize
              /\ cur.type # H4_NONE)
           => /\ Len(sink') = Len(sink) + 1
              /\ LastWritten.hdr = PcapHeader(cur) ]_vars

\* a frame was dropped and a frame delivered after it was written
C3_Witness ==
    /\ Len(hist) = 2
    /\ C3_Exceeds(PcapHeader(hist[1].f))
    /\ ~C3_Exceeds(PcapHeader(hist[2].f))
    /\ Len(sink) = 1
    /\ sink[1].hdr = PcapHeader(hist[2].f)

(***************************************************************************)
(* C10: every frame whose header-declared length exceeds                   *)
(* BT_MAX_PACKET_SIZE is dropped (nothing is written for it), for every    *)
(* 32-bit value of the declared length.                                    *)
(***************************************************************************)
C10_DeclaredOversizeDropped ==
    [][ (CallbackStep /\ log_format = "PCAP" /\ cur.len > HeaderSize
           /\ GtU32(BigEndian(cur.length), BT_MAX_PACKET_SIZE))
        => sink' = sink ]_vars

(***************************************************************************)
(* C4: shutdown performs its three steps in strict order whatever          *)
(* triggered it: unsubscribe, then stop the session, then close the sink;  *)
(* when main has returned from the teardown the sink has been closed       *)
(* exactly once, and it is never closed before the session was stopped.    *)
(***************************************************************************)
C4_IsClose(c) == c \in { "pcap_dump_close", "close" }

C4_ShutdownOrder ==
    /\ \A i \in DOMAIN calls :
         /\ calls[i] = "unsubscribe" => i = 1
         /\ calls[i] = "stop_logging" => i = 2
         /\ C4_IsClose(calls[i]) => i = 3
    /\ sinkState = "closed" => ~subscribed /\ bt_packet_logger = NULL /\ device = NULL
    /\ mainPc = "done" => /\ Len(calls) = 3
                          /\ C4_IsClose(calls[3])

(***************************************************************************)
(* C5: closing the output sink never overlaps a frame callback in          *)
(* progress, nothing is written to the sink once it is closed, and while a *)
(* frame is in the hands of the frame callback no stop takes effect: the   *)
(* client is not released and the sink is not closed until the callback    *)
(* has finished.                                                           *)
(***************************************************************************)
C5_NoCloseDuringWrite ==
    /\ [][ (sinkState # "closed" /\ sinkState' = "closed")
           => wpc = "idle" /\ wpc' = "idle" ]_vars
    /\ [][ sinkState = "closed" => sink' = sink /\ wpc' = "idle" ]_vars
    /\ [][ wpc = "in_cb"
           => /\ bt_packet_logger' = bt_packet_logger
              /\ device' = device
              /\ sinkState' = sinkState ]_vars

\* main has reached stop_logging while a frame is in the frame callback
C5_Witness ==
    /\ mainPc = "stop"
    /\ wpc = "in_cb"
    /\ bt_packet_logger # NULL
    /\ sinkState = "open"

(***************************************************************************)
(* C6: with no identity bound, an attach event of the configured transport *)
(* kind binds its identity and calls start_logging; while an identity is   *)
(* bound, an attach or detach event carrying another identity changes      *)
(* nothing of the session: no start, no stop, no notification, no          *)
(* termination request.                                                    *)
(***************************************************************************)
C6_FirstAttachBinds ==
    /\ [][ (EventStep /\ udid = NULL /\ event.event = "ADD"
              /\ OfConfiguredKind(event))
           => udid' = event.udid /\ nStartCalls' = nStartCalls + 1 ]_vars
    /\ [][ (EventStep /\ udid # NULL /\ event.udid # udid)
           => UNCHANGED << sessVars, outVars, quit_flag >> ]_vars

\* the identity was bound by an attach, capture runs, and a detach of the
\* other identity has just been handled
C6_Witness ==
    /\ evpc = "idle"
    /\ event.event = "REMOVE"
    /\ OfConfiguredKind(event)
    /\ udid # NULL
    /\ event.udid # udid
    /\ bt_packet_logger = udid
    /\ nStartCalls = 1
    /\ nEvents = 2

(***************************************************************************)
(* C7: a detach event of the bound identity while a session is active      *)
(* releases both handles; with exit-on-disconnect the termination flag is  *)
(* then non-zero, without it the flag and main's position are unchanged;   *)
(* a later attach of the same identity calls start_logging again.          *)
(***************************************************************************)
C7_DetachStops ==
    /\ [][ (EventStep /\ event.event = "REMOVE" /\ OfConfiguredKind(event)
              /\ bt_packet_logger # NULL /\ event.udid = udid)
           => /\ bt_packet_logger' = NULL
              /\ device' = NULL
              /\ exit_on_disconnect => quit_flag' # 0
              /\ ~exit_on_disconnect => quit_flag' = quit_flag /\ mainPc' = mainPc
         ]_vars
    /\ [][ (EventStep /\ event.event = "ADD" /\ OfConfiguredKind(event)
              /\ bt_packet_logger = NULL /\ udid # NULL /\ event.udid = udid)
           => nStartCalls' = nStartCalls + 1 ]_vars

\* without exit-on-disconnect: connected, detached, and connected again
C7_Witness ==
    /\ ~exit_on_disconnect
    /\ quit_flag = 0
    /\ mainPc = "loop"
    /\ Len(stdout) = 3
    /\ stdout[1] = << "connected", udid >>
    /\ stdout[2] = << "disconnected", udid >>
    /\ stdout[3] = << "connected", udid >>
    /\ bt_packet_logger = udid
    /\ device = udid

(***************************************************************************)
(* C8: when a step of start_logging fails, every handle acquired in that   *)
(* attempt is released: no device handle, no service client and no         *)
(* lockdownd client of the attempt stays open, no connected notification   *)
(* is emitted, and start_logging is called again only by an attach event   *)
(* of the bound identity.                                                  *)
(***************************************************************************)
C8_FailedStartReleasesAll ==
    /\ [][ (nStartCalls' = nStartCalls + 1 /\ bt_packet_logger' = NULL)
           => /\ device' = NULL
              /\ lockdown_clients' = lockdown_clients
              /\ stdout' = stdout ]_vars
    /\ [][ nStartCalls' # nStartCalls
           => /\ EventStep
              /\ event.event = "ADD"
              /\ OfConfiguredKind(event)
              /\ event.udid = udid' ]_vars

(***************************************************************************)
(* C9: for both sink variants, when the output cannot be opened at startup *)
(* the process ends with a failure exit code and never subscribes to       *)
(* device events, so no session is started and no frame callback runs.     *)
(***************************************************************************)
C9_OpenFailed ==
    /\ sinkState = "unopened"
    /\ \/ mainPc \in { "subscribe", "loop", "unsubscribe", "stop", "close",
                       "done", "crashed" }
       \/ mainPc = "exited" /\ exitCode = -2

C9_OpenFailureIsFatal ==
    C9_OpenFailed
      => /\ ~subscribed
         /\ nStartCalls = 0
         /\ hist = << >>
         /\ mainPc \in { "done", "exited" } => exitCode # 0

(***************************************************************************)
(* C11: between event callbacks the service client and the device handle   *)
(* are both open or both absent, at most one of each exists, an open       *)
(* handle is for the bound identity, and start_logging is entered only     *)
(* while no service client is open.                                        *)
(***************************************************************************)
C11_HandlesPaired ==
    /\ [](/\ bt_packet_logger = NULL <=> device = NULL
          /\ service_clients = (IF bt_packet_logger # NULL THEN 1 ELSE 0)
          /\ device_handles = (IF device # NULL THEN 1 ELSE 0)
          /\ bt_packet_logger # NULL => bt_packet_logger = udid /\ device = udid)
    /\ [][ nStartCalls' # nStartCalls
           => bt_packet_logger = NULL /\ service_clients = 0 ]_vars

\* capture runs after an earlier start_logging that failed
C11_Witness ==
    /\ nStartCalls = 2
    /\ stderr.start_failed = 1
    /\ bt_packet_logger = udid
    /\ device = udid
    /\ device_handles = 1
    /\ service_clients = 1

(***************************************************************************)
(* C12: stop_logging is idempotent: called with no open handle it changes  *)
(* nothing of the session, makes no release call and raises no error;      *)
(* after any call both handles are absent, so a second call in a row       *)
(* leaves the state of the first; with both handles open it releases the   *)
(* service client before the device handle.                                *)
(***************************************************************************)
C12_StopStep ==
    \/ calls' = Append(calls, "stop_logging")
    \/ /\ EventStep
       /\ event.event = "REMOVE"
       /\ OfConfiguredKind(event)
       /\ bt_packet_logger # NULL
       /\ event.udid = udid

C12_StopIdempotent ==
    /\ [][ (C12_StopStep /\ bt_packet_logger = NULL /\ device = NULL)
           => /\ UNCHANGED << sessVars, stderr, exitCode >>
              /\ released' = << >>
              /\ mainPc' # "crashed" ]_vars
    /\ [][ C12_StopStep
           => /\ bt_packet_logger' = NULL
              /\ device' = NULL
              /\ device_handles' = 0
              /\ service_clients' = 0 ]_vars
    /\ [][ (C12_StopStep /\ bt_packet_logger # NULL /\ device # NULL)
           => released' = << "bt_packet_logger_client_free", "idevice_free" >>
         ]_vars

\* main's stop_logging has run right after the one of a detach
C12_Witness ==
    /\ mainPc = "close"
    /\ exit_on_disconnect
    /\ nSignals = 0
    /\ Len(stdout) = 2
    /\ stdout[2][1] = "disconnected"
    /\ released = << >>
    /\ bt_packet_logger = NULL
    /\ device = NULL

(***************************************************************************)
(* C13: once bound, the identity stays bound for the rest of the run;      *)
(* after the session went back to idle (a detach or a failed start) an     *)
(* attach of the bound identity calls start_logging again and an attach of *)
(* any other identity changes nothing.                                     *)
(***************************************************************************)
C13_BackToIdle ==
    /\ EventStep
    /\ event.event = "ADD"
    /\ OfConfiguredKind(event)
    /\ udid # NULL
    /\ bt_packet_logger = NULL
    /\ nStartCalls >= 1

C13_IdentityRetained ==
    /\ [][ udid # NULL => udid' = udid ]_vars
    /\ [][ (C13_BackToIdle /\ event.udid = udid)
           => nStartCalls' = nStartCalls + 1 /\ udid' = udid ]_vars
    /\ [][ (C13_BackToIdle /\ event.udid # udid)
           => UNCHANGED << sessVars, outVars, quit_flag, logVars >> ]_vars

\* after connect and detach, an attach of the other identity was handled
C13_Witness ==
    /\ evpc = "idle"
    /\ event.event = "ADD"
    /\ OfConfiguredKind(event)
    /\ udid # NULL
    /\ event.udid # udid
    /\ nEvents = 3
    /\ nStartCalls = 1
    /\ Len(stdout) = 2
    /\ stdout[2] = << "disconnected", udid >>
    /\ bt_packet_logger = NULL

(***************************************************************************)
(* C14: the signal handler clean_exit does nothing but set the termination *)
(* flag: it writes nothing (no I/O), and leaves the session handles, the   *)
(* bound identity and the sink unchanged.                                  *)
(***************************************************************************)
C14_HandlerOnlySetsFlag ==
    [][ nSignals' # nSignals
        => /\ quit_flag' # 0
           /\ UNCHANGED << sessVars, sinkVars, sink, stdout, stderr >> ]_vars

(***************************************************************************)
(* C15: a device event whose connection type is not the configured         *)
(* transport kind changes nothing: no identity bound, no start, no stop,   *)
(* no notification, no termination request, even for the bound identity.   *)
(***************************************************************************)
C15_OtherTransportIgnored ==
    [][ (EventStep /\ ~OfConfiguredKind(event))
        => UNCHANGED << cfgVars, sessVars, sinkVars, sink, mainVars, wkVars,
                        hist, outVars, quit_flag, nSignals, logVars >> ]_vars

\* a detach of the bound identity on the other transport was handled while
\* capture runs
C15_Witness ==
    /\ evpc = "idle"
    /\ event.event = "REMOVE"
    /\ ~OfConfiguredKind(event)
    /\ event.udid = udid
    /\ bt_packet_logger = udid
    /\ device = udid
    /\ Len(stdout) = 1

(***************************************************************************)
(* C16: a connected notification is written exactly when start_logging     *)
(* succeeds and a disconnected notification on every stop of an active     *)
(* session, so the two alternate starting with connected, and every        *)
(* connected is followed by a disconnected by the end of teardown, also    *)
(* when the stop is the one of the teardown after a termination signal.    *)
(***************************************************************************)
C16_Alternates ==
    \A i \in DOMAIN stdout :
       stdout[i][1] = (IF i % 2 = 1 THEN "connected" ELSE "disconnected")

C16_NotificationsPaired ==
    /\ [](C16_Alternates)
    /\ [][ nStartCalls' # nStartCalls
           => IF bt_packet_logger' # NULL
              THEN stdout' = Append(stdout, << "connected", udid' >>)
              ELSE stdout' = stdout ]_vars
    /\ [][ (C12_StopStep /\ bt_packet_logger # NULL)
           => stdout' = Append(stdout, << "disconnected", udid >>) ]_vars
    /\ [](mainPc = "done" => Len(stdout) % 2 = 0)

\* main's teardown has called stop_logging
C16_TeardownStopped == \E i \in DOMAIN calls : calls[i] = "stop_logging"

(***************************************************************************)
(* C16, as the code has it: a connected notification is written exactly    *)
(* when start_logging succeeds and a disconnected notification exactly     *)
(* when a detach event stops the active session; the two alternate         *)
(* starting with connected.  The stop_logging of main's teardown writes    *)
(* no notification, so a connected without its disconnected is there only  *)
(* while the session is active or after the teardown stopped it.           *)
(***************************************************************************)
C16_DetachNotifies ==
    /\ [](C16_Alternates)
    /\ [][ stdout' # stdout => EventStep ]_vars
    /\ [][ nStartCalls' # nStartCalls
           => IF bt_packet_logger' # NULL
              THEN stdout' = Append(stdout, << "connected", udid' >>)
              ELSE stdout' = stdout ]_vars
    /\ [][ (C12_StopStep /\ EventStep)
           => stdout' = Append(stdout, << "disconnected", udid >>) ]_vars
    /\ [][ calls' = Append(calls, "stop_logging") => stdout' = stdout ]_vars
    /\ [](bt_packet_logger # NULL => Len(stdout) % 2 = 1)
    /\ []((Len(stdout) % 2 = 1 /\ bt_packet_logger = NULL)
            => C16_TeardownStopped)

\* a signal ended the run while capture was active: the teardown stopped
\* the session and the last notification is the connected one
C16_Witness ==
    /\ mainPc = "done"
    /\ nSignals = 1
    /\ C16_TeardownStopped
    /\ Len(stdout) = 1
    /\ stdout[1] = << "connected", udid >>
    /\ bt_packet_logger = NULL
    /\ device = NULL

(***************************************************************************)
(* C17: in passthrough mode the sink holds, in delivery order, exactly the *)
(* frames delivered, each with its original bytes and its original length: *)
(* nothing is added, dropped or changed.                                   *)
(***************************************************************************)
C17_PassthroughExact ==
    log_format = "PACKETLOGGER"
    => /\ Len(sink) = Len(hist)
       /\ \A i \in DOMAIN hist :
            sink[i] = [ data |-> hist[i].f, len |-> hist[i].f.len ]

\* two different frames were passed through, the frame whose declared
\* length the pcap translator would reject first
C17_Witness ==
    /\ log_format = "PACKETLOGGER"
    /\ Len(hist) = 2
    /\ Len(sink) = 2
    /\ ~DeclaredFits(sink[1].data)
    /\ DeclaredFits(sink[2].data)
    /\ sink[1].len = 22

(***************************************************************************)
(* C18: every frame the pcap sanity check rejects increments a drop        *)
(* counter of the program by exactly 1.  The integers the program keeps    *)
(* are quit_flag and packetlogger_fd.                                      *)
(***************************************************************************)
C18_DropCounterIncrements ==
    [][ (CallbackStep /\ log_format = "PCAP" /\ C3_Exceeds(PcapHeader(cur)))
        => \/ quit_flag' = quit_flag + 1
           \/ packetlogger_fd' = packetlogger_fd + 1 ]_vars

\* the frames of the history the sanity check rejects
C18_Rejected == { i \in DOMAIN hist : C3_Exceeds(PcapHeader(hist[i].f)) }

(***************************************************************************)
(* C18, as the code has it: every frame the pcap sanity check rejects      *)
(* writes exactly one warning line to stderr and a frame it accepts writes *)
(* none, so the number of warning lines is the number of rejected frames;  *)
(* no variable of the program counts them.                                 *)
(***************************************************************************)
C18_WarningPerDrop ==
    /\ [](log_format = "PCAP" => stderr.warning = Cardinality(C18_Rejected))
    /\ [][ (CallbackStep /\ log_format = "PCAP")
           => /\ stderr'.warning = stderr.warning
                   + (IF C3_Exceeds(PcapHeader(cur)) THEN 1 ELSE 0)
              /\ UNCHANGED << quit_flag, packetlogger_fd >> ]_vars

\* a frame was written and the frame after it rejected with one warning
C18_Witness ==
    /\ log_format = "PCAP"
    /\ Len(hist) = 2
    /\ hist[1].res = "written"
    /\ hist[2].res = "dropped"
    /\ C18_Rejected = { 2 }
    /\ stderr.warning = 1
    /\ Len(sink) = 1

(***************************************************************************)
(* C19: a pcap record is written only for a frame longer than the header   *)
(* (F > headerSize) whose capture length is at most F - headerSize + 4, so *)
(* the record body lies within the delivered frame.                        *)
(***************************************************************************)
C19_BodyWithinFrame ==
    [][ (CallbackStep /\ log_format = "PCAP" /\ Len(sink') = Len(sink) + 1)
        => /\ cur.len > HeaderSize
           /\ LastWritten.hdr.caplen.hi = 0
           /\ LastWritten.hdr.caplen.lo <= cur.len - HeaderSize + SizeofU32
      ]_vars

(***************************************************************************)
(* C20: once termination is requested the flag stays non-zero, the process *)
(* does not die before its teardown, and when main has returned from the   *)
(* teardown the exit code is 0, both session handles are released and the  *)
(* sink is closed.                                                         *)
(***************************************************************************)
C20_TerminationCompletes ==
    /\ [][ quit_flag # 0 => quit_flag' # 0 ]_vars
    /\ [](quit_flag # 0 => mainPc # "crashed")
    /\ [](mainPc = "done"
            => /\ quit_flag # 0
               /\ exitCode = 0
               /\ bt_packet_logger = NULL
               /\ device = NULL
               /\ sinkState = "closed")

=============================================================================
